---- MODULE Spec2Model ----
(***************************************************************************)
(* scripts/verify.py: verification of the DssSpell and DssSpellAction      *)
(* contracts on Etherscan.  The script runs top to bottom; every action    *)
(* below is one statement group of the script, `pc` is the position of the *)
(* interpreter, and the environment (process environment, argv, files,     *)
(* subprocess output, HTTP responses) is drawn from small sets.            *)
(***************************************************************************)
EXTENDS Integers, Sequences, FiniteSets, TLC

VARIABLES
    pc,                 \* position of the interpreter in the script
    outcome,            \* "running", "exit" (exit()), "raised" (uncaught exception), "done"
    error,              \* argument of exit(...) or message of the uncaught exception
    environ,            \* os.environ: the names that are set
    argv,               \* sys.argv
    api_key, rpc_url,   \* module globals, lines 15-16
    config,             \* get_library_address's local, line 75
    lib_error,          \* the ValueError caught at line 93 ("" when none)
    flat_file,          \* the file out/flat.sol written by forge flatten
    chain_id,           \* module global, line 66
    library_address,    \* module global, line 88
    warned,             \* the WARNING of line 95 was printed
    cur,                \* the contract verify_contract is running for ("" outside)
    address,            \* verify_contract's parameter address
    code,               \* verify_contract's local, line 142
    verify_response,    \* verify_contract's local, line 168
    guid,               \* verify_contract's local, line 185
    check_response,     \* verify_contract's local, line 187
    subprocs,           \* the subprocesses run so far, in order
    requests,           \* the HTTP requests the running call has sent
    http,               \* the calls that have sent an HTTP request
    last_response,      \* the HTTP response the running call received last (<<>> when none)
    obs,                \* of the running call: requests sent, responses by kind, seconds slept
    stderr,             \* what was written to sys.stderr, in order
    logs,               \* contents of the verify-<timestamp>.log files written
    shown,              \* the contracts whose explorer URL was printed
    ended               \* how each verify_contract call ended

vars == <<pc, outcome, error, environ, argv, api_key, rpc_url, config, lib_error, flat_file,
          chain_id, library_address, warned, cur, address, code, verify_response,
          guid, check_response, subprocs, requests, http, last_response, obs, stderr,
          logs, shown, ended>>

----------------------------------------------------------------------------
(* Bounds of the model *)

\* Counters of requests, responses and waits saturate here.
MaxCount == 2

(* Program constants *)

AddressLength == 42
SleepSeconds == 15

EmptyDict == <<>>
NoText == <<>>

----------------------------------------------------------------------------
(* Text.  A text is a sequence of words; `in` is modelled on whole words,   *)
(* str.lower() word by word.                                               *)

\* str.lower() of one word
LowerWord(w) ==
    CASE w = "Locate" -> "locate"
      [] w = "LOCATE" -> "locate"
      [] w = "Pending" -> "pending"
      [] w = "PENDING" -> "pending"
      [] w = "Already Verified" -> "already verified"
      [] w = "ALREADY VERIFIED" -> "already verified"
      [] w = "Unable to" -> "unable to"
      [] w = "ContractCode" -> "contractcode"
      [] w = "Fail" -> "fail"
      [] w = "Pass" -> "pass"
      [] w = "Verified" -> "verified"
      [] OTHER -> w

\* text.lower()
Lower(text) == [i \in DOMAIN text |-> LowerWord(text[i])]

\* needle in text
Contains(needle, text) == \E i \in DOMAIN text : text[i] = needle

\* 'locate' in response['result'].lower(), line 170
HasLocate(response) == Contains("locate", Lower(response["result"]))

\* 'pending' in response['result'].lower(), line 189
HasPending(response) == Contains("pending", Lower(response["result"]))

\* lines 178 and 205 without .lower()
HasAlreadyVerifiedExact(response) == Contains("already verified", response["result"])

\* 'already verified' in response['result'].lower(), lines 178 and 205
HasAlreadyVerified(response) == Contains("already verified", Lower(response["result"]))

\* response['status'] != '1' or response['message'] != 'OK', lines 176 and 203
NotOk(response) == response["status"] # "1" \/ response["message"] # "OK"

----------------------------------------------------------------------------
(* The Etherscan API: what a request may be answered with. *)

ResultTexts ==
    { <<"guid1">>,
      <<"Unable to", "locate", "ContractCode">>, <<"Unable to", "Locate">>,
      <<"Pending", "in queue">>,
      <<"Contract source code", "already verified">>, <<"Already Verified">>,
      <<"Fail", "Unable to verify">> }

Payloads ==
    [status : {"0", "1"}, message : {"OK", "NOTOK"}, result : ResultTexts]

\* An HTTP response: its body is JSON text (doc is what it denotes) or is not.
Responses ==
    { [fmt |-> "json", doc |-> d] : d \in Payloads \cup {EmptyDict} }
    \cup { [fmt |-> "html", doc |-> EmptyDict] }

\* json.loads(response.text) succeeds, lines 111-113
IsJson(response) == response.fmt = "json"

\* json.loads(response.text), line 112
JsonLoads(response) == response.doc

InvalidJsonError == "Error: Etherscan responded with invalid JSON."

\* d['result'] raises KeyError
LacksResult(d) == d = EmptyDict

----------------------------------------------------------------------------
(* Counters *)

\* Counts are exact up to MaxCount; MaxCount + 1 stands for every larger count.
Inc(n) == IF n <= MaxCount THEN n + 1 ELSE n

\* time.sleep(SleepSeconds), added to the seconds slept so far
Sleep(s) == IF s <= MaxCount * SleepSeconds THEN s + SleepSeconds ELSE s

NoObs == [posts |-> 0, locates |-> 0, polls |-> 0, pendings |-> 0, blank |-> FALSE,
          slept_submit |-> 0, slept_poll |-> 0]

----------------------------------------------------------------------------
(* The environment of one run *)

AddrGood == "0x1111111111111111111111111111111111111111"
AddrShort == "0x111111111111111111111111111111111111111"
AddrLong == "0x11111111111111111111111111111111111111111"

\* len() of the address strings above
StrLen(s) ==
    CASE s = AddrGood -> 42
      [] s = AddrShort -> 41
      [] s = AddrLong -> 43

\* sys.argv: the script, then one to four arguments
ArgVectors ==
    { SubSeq(<<"verify.py", "DssSpell", a, "0xc0ffee", "extra">>, 1, n) :
        a \in {AddrGood, AddrShort, AddrLong}, n \in 2..5 }

Environs == SUBSET {"ETHERSCAN_API_KEY", "ETH_RPC_URL"}

\* stdout of a subprocess is a sequence of pieces; decode('utf-8')[:-1]
Chop(out) == SubSeq(out, 1, Len(out) - 1)
Decode(out) == IF Chop(out) = <<>> THEN "" ELSE Chop(out)[1]

\* stdout of `cast chain-id`; nothing when the command fails
ChainIdOutputs == { <<"1", "\n">>, <<"11155111", "\n">>, <<>> }

\* stdout of `cast call <spell> action()(address)`
CastCallOutputs == { <<"0x2222222222222222222222222222222222222222", "\n">> }

\* out/flat.sol after forge flatten: a flattened source, or no file
NoFile == "<no file>"
FlatFiles == { "contract DssSpellAction {} contract DssSpell {}", NoFile }

\* foundry.toml: absent, unreadable, or a text of library entries
LibA == "0xAAAAAAAAAAAAAAAAAAAAAAAAAAAAAAAAAAAAAAAA"
LibB == "0xbbbbbbbbbbbbbbbbbbbbbbbbbbbbbbbbbbbbbbbb"
LibShort == "0xAAAA"
LibEntries ==
    { [key |-> "DssExecLib", addr |-> LibA], [key |-> "DssExecLib", addr |-> LibShort],
      [key |-> "DssAutoLine", addr |-> LibB] }
FoundryFiles ==
    { [kind |-> k, entries |-> <<>>] : k \in {"missing", "unreadable"} }
    \cup { [kind |-> "text", entries |-> t] :
             t \in {<<>>} \cup { <<e>> : e \in LibEntries }
                          \cup { <<e1, e2>> : e1 \in LibEntries, e2 \in LibEntries } }

\* the build artifact out/DssSpell.sol/<name>.json
Artifacts ==
    { [kind |-> k, license |-> ""] : k \in {"missing", "not json"} }
    \cup { [kind |-> "json", license |-> l] :
             l \in {"GPL-3.0-or-later", "AGPL-3.0-or-later", "MIT"} }

----------------------------------------------------------------------------
(* get_library_address, lines 70-84 *)

\* 0x[0-9a-fA-F]{40}
IsHex40(a) == a \in {LibA, LibB}

\* the entry matches :DssExecLib:(0x[0-9a-fA-F]{40}), line 76
Matches(e) == e.key = "DssExecLib" /\ IsHex40(e.addr)

\* re.search: the first match, or none (0)
FirstMatch(entries) ==
    IF \E i \in DOMAIN entries : Matches(entries[i])
    THEN CHOOSE i \in DOMAIN entries :
            Matches(entries[i]) /\ \A j \in 1..(i - 1) : ~Matches(entries[j])
    ELSE 0

\* open('foundry.toml').read() raises, lines 75, 79-80 and 83-84
OpenError(file) ==
    CASE file.kind = "missing" -> "No foundry.toml found"
      [] file.kind = "unreadable" -> "Permission denied"
      [] OTHER -> ""

\* line 76 with the pattern :(0x[0-9a-fA-F]{40}), any library
get_any_library_address(text) ==
    IF \E i \in DOMAIN text : IsHex40(text[i].addr)
    THEN [raised |-> FALSE,
          value |-> text[CHOOSE i \in DOMAIN text : IsHex40(text[i].addr)].addr]
    ELSE [raised |-> TRUE, value |-> "No DssExecLib configured in foundry.toml"]

\* lines 76-78 and 81-82: the address, or the ValueError raised
get_library_address(text) ==
    IF FirstMatch(text) = 0
    THEN [raised |-> TRUE, value |-> "No DssExecLib configured in foundry.toml"]
    ELSE [raised |-> FALSE, value |-> text[FirstMatch(text)].addr]

library_name == "DssExecLib"

----------------------------------------------------------------------------
(* Lines 15-67: credentials, arguments, flatten, chain id *)

Init ==
    /\ pc = "api_key"
    /\ outcome = "running"
    /\ error = ""
    /\ environ \in Environs
    /\ argv \in ArgVectors
    /\ api_key = ""
    /\ rpc_url = ""
    /\ config = <<>>
    /\ lib_error = ""
    /\ flat_file = NoFile
    /\ chain_id = ""
    /\ library_address = ""
    /\ warned = FALSE
    /\ cur = ""
    /\ address = ""
    /\ code = ""
    /\ verify_response = EmptyDict
    /\ guid = NoText
    /\ check_response = EmptyDict
    /\ subprocs = <<>>
    /\ requests = {}
    /\ http = {}
    /\ last_response = <<>>
    /\ obs = NoObs
    /\ stderr = <<>>
    /\ logs = <<>>
    /\ shown = {}
    /\ ended = [spell |-> "no", action |-> "no"]

\* the variables of a verify_contract call and of its effects
callVars == <<cur, address, code, verify_response, guid, check_response, requests,
              http, last_response, obs, stderr, logs, shown, ended>>

\* exit() / exit(arg)
Exit(arg) == /\ outcome' = "exit"
             /\ error' = arg
             /\ pc' = "end"

\* an exception nothing catches
Raise(msg) == /\ outcome' = "raised"
              /\ error' = msg
              /\ pc' = "end"

Goto(label) == /\ pc' = label
               /\ UNCHANGED <<outcome, error>>

\* lines 18-25
LoadApiKey ==
    /\ pc = "api_key"
    /\ IF "ETHERSCAN_API_KEY" \in environ
       THEN api_key' = "key" /\ Goto("rpc_url")
       ELSE api_key' = api_key /\ Exit("")
    /\ UNCHANGED <<environ, argv, rpc_url, config, lib_error, flat_file, chain_id,
                   library_address, warned, subprocs>>
    /\ UNCHANGED callVars

\* lines 27-34
LoadRpcUrl ==
    /\ pc = "rpc_url"
    /\ IF "ETH_RPC_URL" \in environ
       THEN rpc_url' = "url" /\ Goto("usage")
       ELSE rpc_url' = rpc_url /\ Exit("")
    /\ UNCHANGED <<environ, argv, api_key, config, lib_error, flat_file, chain_id,
                   library_address, warned, subprocs>>
    /\ UNCHANGED callVars

\* lines 36-40
CheckUsage ==
    /\ pc = "usage"
    /\ IF Len(argv) \notin {3, 4} THEN Exit("") ELSE Goto("address")
    /\ UNCHANGED <<environ, argv, api_key, rpc_url, config, lib_error, flat_file, chain_id,
                   library_address, warned, subprocs>>
    /\ UNCHANGED callVars

\* lines 42-53 with the test len(spell_contract_address) < 42
CheckAddressShort ==
    /\ pc = "address"
    /\ IF StrLen(argv[3]) < AddressLength
       THEN Exit("malformed address")
       ELSE Goto("flatten")
    /\ UNCHANGED <<environ, argv, api_key, rpc_url, config, lib_error, flat_file,
                   chain_id, library_address, warned, subprocs>>
    /\ UNCHANGED callVars

\* lines 42-53
CheckAddress ==
    /\ pc = "address"
    /\ IF StrLen(argv[3]) # AddressLength
       THEN Exit("malformed address")
       ELSE Goto("flatten")
    /\ UNCHANGED <<environ, argv, api_key, rpc_url, config, lib_error, flat_file, chain_id,
                   library_address, warned, subprocs>>
    /\ UNCHANGED callVars

\* lines 59-61: forge flatten writes out/flat.sol, or fails and writes nothing
Flatten ==
    /\ pc = "flatten"
    /\ subprocs' = Append(subprocs, "forge flatten")
    /\ \E f \in FlatFiles : flat_file' = f
    /\ Goto("chain_id")
    /\ UNCHANGED <<environ, argv, api_key, rpc_url, config, lib_error, chain_id,
                   library_address, warned>>
    /\ UNCHANGED callVars

\* lines 64-67
ChainId ==
    /\ pc = "chain_id"
    /\ subprocs' = Append(subprocs, "cast chain-id")
    /\ \E out \in ChainIdOutputs : chain_id' = Decode(out)
    /\ Goto("library")
    /\ UNCHANGED <<environ, argv, api_key, rpc_url, config, lib_error, flat_file,
                   library_address, warned>>
    /\ UNCHANGED callVars

\* the call of line 221
CallSpell ==
    /\ Goto("artifact")
    /\ cur' = "spell"
    /\ address' = argv[3]

\* lines 87-91 and 74-75: foundry.toml is opened and read; lines 79-80, 83-84
\* and 93-95 when that raises
ReadFoundry ==
    /\ pc = "library"
    /\ \E file \in FoundryFiles :
        IF OpenError(file) # ""
        THEN /\ lib_error' = OpenError(file)
             /\ library_address' = ""
             /\ warned' = TRUE
             /\ config' = config
             /\ CallSpell
        ELSE /\ config' = file.entries
             /\ Goto("search")
             /\ UNCHANGED <<lib_error, library_address, warned, cur, address>>
    /\ UNCHANGED <<environ, argv, api_key, rpc_url, flat_file, chain_id, subprocs>>
    /\ UNCHANGED <<code, verify_response, guid, check_response, requests, http,
                   last_response, obs, stderr, logs, shown, ended>>

\* lines 76-78, 81-82 and 91-95
SearchLibrary ==
    /\ pc = "search"
    /\ LET got == get_library_address(config)
       IN  IF got.raised
           THEN library_address' = "" /\ warned' = TRUE /\ lib_error' = got.value
           ELSE library_address' = got.value /\ warned' = FALSE /\ lib_error' = ""
    /\ config' = <<>>
    /\ CallSpell
    /\ UNCHANGED <<environ, argv, api_key, rpc_url, flat_file, chain_id, subprocs>>
    /\ UNCHANGED <<code, verify_response, guid, check_response, requests, http,
                   last_response, obs, stderr, logs, shown, ended>>

----------------------------------------------------------------------------
(* send_etherscan_api_request, lines 98-116 *)

\* lines 109-116 without the print of line 114
send_without_diagnostic(q, r) ==
    /\ requests' = requests \cup {q}
    /\ http' = http \cup {q.call}
    /\ last_response' = r
    /\ stderr' = stderr

\* the POST of line 109 answered by r; an invalid body goes to stderr, line 114
send_etherscan_api_request(q, r) ==
    /\ requests' = requests \cup {q}
    /\ http' = http \cup {q.call}
    /\ last_response' = r
    /\ stderr' = IF IsJson(r) THEN stderr ELSE Append(stderr, r)

----------------------------------------------------------------------------
(* verify_contract, lines 119-213 *)

globals == <<environ, argv, api_key, rpc_url, config, lib_error, flat_file, chain_id,
             library_address, warned, subprocs>>

license_numbers == {"GPL-3.0-or-later", "AGPL-3.0-or-later"}

\* the request of lines 146-166
VerifyRequest ==
    [call |-> cur, action |-> "verifysourcecode", contractaddress |-> address,
     sourceCode |-> code, libraryname1 |-> library_name,
     libraryaddress1 |-> library_address, guid |-> NoText]

\* the request of lines 196-201
StatusRequest ==
    [call |-> cur, action |-> "checkverifystatus", contractaddress |-> "",
     sourceCode |-> "", libraryname1 |-> "", libraryaddress1 |-> "", guid |-> guid]

\* an exception leaves verify_contract and nothing catches it
RaiseFromCall(msg) ==
    /\ Raise(msg)
    /\ ended' = [ended EXCEPT ![cur] = "raise"]

\* verify_contract returns; its locals are gone
Return(how) ==
    /\ ended' = [ended EXCEPT ![cur] = how]
    /\ Goto(IF cur = "spell" THEN "show_spell" ELSE "show_action")
    /\ cur' = ""
    /\ address' = ""
    /\ code' = ""
    /\ verify_response' = EmptyDict
    /\ guid' = NoText
    /\ check_response' = EmptyDict
    /\ requests' = {}
    /\ last_response' = <<>>
    /\ obs' = NoObs

\* what the response to a submit adds to the observations
SeenSubmit(r) ==
    [obs EXCEPT !.posts = Inc(@),
                !.locates = IF IsJson(r) /\ ~LacksResult(r.doc) /\ HasLocate(r.doc)
                            THEN Inc(@) ELSE @]

\* what the response to a status query adds to the observations
SeenStatus(r) ==
    [obs EXCEPT !.polls = Inc(@),
                !.pendings = IF IsJson(r) /\ ~LacksResult(r.doc) /\ HasPending(r.doc)
                             THEN Inc(@) ELSE @,
                !.blank = (@ \/ (IsJson(r) /\ LacksResult(r.doc)))]

\* lines 120-140: the build artifact and its metadata
LoadArtifact ==
    /\ pc = "artifact"
    /\ \E art \in Artifacts :
        IF art.kind = "missing" THEN RaiseFromCall("run forge build first")
        ELSE IF art.kind = "not json" THEN RaiseFromCall("run forge build again")
        ELSE IF art.license \notin license_numbers THEN RaiseFromCall("KeyError")
        ELSE Goto("read_code") /\ ended' = ended
    /\ UNCHANGED globals
    /\ UNCHANGED <<cur, address, code, verify_response, guid, check_response,
                   requests, http, last_response, obs, stderr, logs, shown>>

\* lines 142-144
ReadFlattened ==
    /\ pc = "read_code"
    /\ IF flat_file = NoFile
       THEN RaiseFromCall("FileNotFoundError") /\ code' = code
       ELSE Goto("submit") /\ code' = flat_file /\ ended' = ended
    /\ UNCHANGED globals
    /\ UNCHANGED <<cur, address, verify_response, guid, check_response, requests,
                   http, last_response, obs, stderr, logs, shown>>

\* the assignment verify_response = send_etherscan_api_request(params, data)
SubmitAnswered(r) ==
    /\ send_etherscan_api_request(VerifyRequest, r)
    /\ IF IsJson(r)
       THEN verify_response' = JsonLoads(r) /\ Goto("locate_loop") /\ ended' = ended
       ELSE verify_response' = verify_response /\ RaiseFromCall(InvalidJsonError)

\* lines 146-168
Submit ==
    /\ pc = "submit"
    /\ \E r \in Responses :
        /\ SubmitAnswered(r)
        /\ obs' = SeenSubmit(r)
    /\ UNCHANGED globals
    /\ UNCHANGED <<cur, address, code, guid, check_response, logs, shown>>

\* line 170 without .lower()
LocateAgainExact == Contains("locate", verify_response["result"])

\* line 170: the loop goes on
LocateAgain == HasLocate(verify_response)

\* lines 170-174: one more round of the resubmission loop
LocateRetry ==
    /\ pc = "locate_loop"
    /\ ~LacksResult(verify_response)
    /\ LocateAgain
    /\ \E r \in Responses :
        /\ SubmitAnswered(r)
        /\ obs' = [SeenSubmit(r) EXCEPT !.slept_submit = Sleep(@)]
    /\ UNCHANGED globals
    /\ UNCHANGED <<cur, address, code, guid, check_response, logs, shown>>

\* line 170 on a response without 'result'
LocateKeyError ==
    /\ pc = "locate_loop"
    /\ LacksResult(verify_response)
    /\ RaiseFromCall("KeyError")
    /\ UNCHANGED globals
    /\ UNCHANGED <<cur, address, code, verify_response, guid, check_response,
                   requests, http, last_response, obs, stderr, logs, shown>>

\* line 185
GuidOf(response) == response["result"]

\* line 179 preceded by the log of lines 206-210
FailSubmitLogged ==
    /\ RaiseFromCall("Failed to verify")
    /\ logs' = Append(logs, code)

\* line 179: the submission failed; nothing is written
FailSubmit ==
    /\ RaiseFromCall("Failed to verify")
    /\ logs' = logs

\* lines 176-187: the resubmission loop is left
SubmitExit ==
    /\ pc = "locate_loop"
    /\ ~LacksResult(verify_response)
    /\ ~LocateAgain
    /\ IF NotOk(verify_response)
       THEN IF ~HasAlreadyVerified(verify_response)
            THEN /\ FailSubmit
                 /\ UNCHANGED <<cur, address, code, verify_response, guid,
                                check_response, requests, last_response, obs>>
            ELSE Return("return@181") /\ logs' = logs
       ELSE /\ guid' = GuidOf(verify_response)
            /\ check_response' = EmptyDict
            /\ Goto("poll_loop")
            /\ UNCHANGED <<cur, address, code, verify_response, ended,
                           requests, last_response, obs, logs>>
    /\ UNCHANGED globals
    /\ UNCHANGED <<http, stderr, shown>>

\* line 189: the loop goes on
PollAgain == IF check_response = EmptyDict THEN TRUE ELSE HasPending(check_response)

\* lines 193-194 without the test of line 191
PollWaitAlways(slept) == Sleep(slept)

\* lines 191-194: the wait before a query
PollWait(slept) == IF check_response # EmptyDict THEN Sleep(slept) ELSE slept

\* lines 189-201: one round of the polling loop
PollIter ==
    /\ pc = "poll_loop"
    /\ PollAgain
    /\ \E r \in Responses :
        /\ send_etherscan_api_request(StatusRequest, r)
        /\ obs' = [SeenStatus(r) EXCEPT !.slept_poll = PollWait(@)]
        /\ IF IsJson(r)
           THEN check_response' = JsonLoads(r) /\ Goto("poll_loop") /\ ended' = ended
           ELSE check_response' = check_response /\ RaiseFromCall(InvalidJsonError)
    /\ UNCHANGED globals
    /\ UNCHANGED <<cur, address, code, verify_response, guid, logs, shown>>

\* line 208 left out: the log file is created empty
LogContentNone == ""

\* line 208: what is written to verify-<timestamp>.log
LogContent == code

\* lines 206-210
WriteLog ==
    /\ logs' = Append(logs, LogContent)
    /\ Goto("raise_status")

\* lines 203-210 and 212-213: the polling loop is left
PollExit ==
    /\ pc = "poll_loop"
    /\ ~PollAgain
    /\ IF NotOk(check_response)
       THEN IF ~HasAlreadyVerified(check_response)
            THEN /\ WriteLog
                 /\ UNCHANGED <<cur, address, code, verify_response, guid,
                                check_response, requests, last_response, obs, ended>>
            ELSE Return("return@213") /\ logs' = logs
       ELSE Return("return@end") /\ logs' = logs
    /\ UNCHANGED globals
    /\ UNCHANGED <<http, stderr, shown>>

\* line 211
RaiseStatus ==
    /\ pc = "raise_status"
    /\ RaiseFromCall("Failed to get verification status")
    /\ UNCHANGED globals
    /\ UNCHANGED <<cur, address, code, verify_response, guid, check_response,
                   requests, http, last_response, obs, stderr, logs, shown>>

----------------------------------------------------------------------------
(* The driver, lines 216-253 *)

\* etherscan_subdomains, lines 216-219
etherscan_subdomains == [c \in {"1", "11155111"} |-> IF c = "1" THEN "" ELSE "sepolia."]

\* lines 228-231 with etherscan_subdomains.get(chain_id, '')
ShowSpellUrlAnyChain ==
    /\ pc = "show_spell"
    /\ shown' = shown \cup {[contract |-> "spell", subdomain |-> ""]}
    /\ Goto("cast_call")
    /\ UNCHANGED globals
    /\ UNCHANGED <<cur, address, code, verify_response, guid, check_response,
                   requests, http, last_response, obs, stderr, logs, ended>>

\* lines 228-231
ShowSpellUrl ==
    /\ pc = "show_spell"
    /\ IF chain_id \in DOMAIN etherscan_subdomains
       THEN /\ shown' = shown \cup {[contract |-> "spell",
                                     subdomain |-> etherscan_subdomains[chain_id]]}
            /\ Goto("cast_call")
       ELSE Raise("KeyError") /\ shown' = shown
    /\ UNCHANGED globals
    /\ UNCHANGED <<cur, address, code, verify_response, guid, check_response,
                   requests, http, last_response, obs, stderr, logs, ended>>

\* lines 234-241, then the call of line 243
CastCall ==
    /\ pc = "cast_call"
    /\ subprocs' = Append(subprocs, "cast call")
    /\ \E out \in CastCallOutputs : address' = Decode(out)
    /\ cur' = "action"
    /\ Goto("artifact")
    /\ UNCHANGED <<environ, argv, api_key, rpc_url, config, lib_error, flat_file, chain_id,
                   library_address, warned>>
    /\ UNCHANGED <<code, verify_response, guid, check_response, requests, http,
                   last_response, obs, stderr, logs, shown, ended>>

\* lines 250-253
ShowActionUrl ==
    /\ pc = "show_action"
    /\ IF chain_id \in DOMAIN etherscan_subdomains
       THEN /\ shown' = shown \cup {[contract |-> "action",
                                     subdomain |-> etherscan_subdomains[chain_id]]}
            /\ outcome' = "done"
            /\ pc' = "end"
            /\ error' = error
       ELSE Raise("KeyError") /\ shown' = shown
    /\ UNCHANGED globals
    /\ UNCHANGED <<cur, address, code, verify_response, guid, check_response,
                   requests, http, last_response, obs, stderr, logs, ended>>

Next ==
    \/ LoadApiKey
    \/ LoadRpcUrl
    \/ CheckUsage
    \/ CheckAddress
    \/ Flatten
    \/ ChainId
    \/ ReadFoundry
    \/ SearchLibrary
    \/ LoadArtifact
    \/ ReadFlattened
    \/ Submit
    \/ LocateRetry
    \/ LocateKeyError
    \/ SubmitExit
    \/ PollIter
    \/ PollExit
    \/ RaiseStatus
    \/ ShowSpellUrl
    \/ CastCall
    \/ ShowActionUrl

Spec == Init /\ [][Next]_vars

\* the interpreter runs the next statement as long as there is one
FairSpec == Spec /\ WF_vars(Next)

----------------------------------------------------------------------------
(* Vocabulary of the properties *)

Returns == {"return@181", "return@213", "return@end"}

\* the word occurs in the text in some letter case
AnyCase(word, text) == \E i \in DOMAIN text : LowerWord(text[i]) = word

\* a JSON object with status '1', message 'OK' and no 'locate' in its result
CleanSuccess(d) ==
    /\ d # EmptyDict
    /\ d.status = "1"
    /\ d.message = "OK"
    /\ ~AnyCase("locate", d.result)

\* a JSON object that is not a success and says 'already verified'
AlreadyVerified(d) ==
    /\ d # EmptyDict
    /\ (d.status # "1" \/ d.message # "OK")
    /\ AnyCase("already verified", d.result)

\* a JSON object that is not a success and does not say 'already verified'
Failure(d) ==
    /\ d # EmptyDict
    /\ (d.status # "1" \/ d.message # "OK")
    /\ ~AnyCase("already verified", d.result)

\* the submit response that ends the resubmission loop has arrived
SubmitTerminal ==
    /\ pc = "locate_loop"
    /\ verify_response # EmptyDict
    /\ ~AnyCase("locate", verify_response.result)

\* the status response that ends the polling loop has arrived
PollTerminal ==
    /\ pc = "poll_loop"
    /\ check_response # EmptyDict
    /\ ~AnyCase("pending", check_response.result)

StatusRequests == { q \in requests : q.action = "checkverifystatus" }
VerifyRequests == { q \in requests : q.action = "verifysourcecode" }

----------------------------------------------------------------------------
(* C1 *)

\* C1: once the resubmission loop is over with a clean success, N responses
\* with 'locate' (any case) were answered by exactly N + 1 verification POSTs,
\* no response with 'locate' ends the loop, and the guid of the call and of
\* every status query it sends is the result of that last response.
C1_SubmitLoop ==
    /\ pc \in {"poll_loop", "raise_status"} => CleanSuccess(verify_response)
    /\ (cur # "" /\ obs.posts >= 1 /\ CleanSuccess(verify_response)) =>
          /\ obs.posts <= MaxCount => obs.posts = obs.locates + 1
          /\ \A q \in VerifyRequests : q.call = cur
          /\ pc \in {"poll_loop", "raise_status"} => guid = verify_response.result
          /\ \A q \in StatusRequests : q.guid = verify_response.result

\* one 'locate' response, then a clean success, then a status query
C1_Witness ==
    /\ pc = "poll_loop"
    /\ obs.locates = 1
    /\ obs.posts = 2
    /\ obs.slept_submit = SleepSeconds
    /\ StatusRequests # {}

----------------------------------------------------------------------------
(* C2 *)

\* the status response is a success or an 'already verified' response
PollGood == PollTerminal /\ ~Failure(check_response)

\* C2: in the polling loop the first status query is sent without a wait; a
\* response with 'pending' (any case) is followed by a 15-second wait and one
\* more query; when M 'pending' responses were followed by a success or an
\* 'already verified' response, exactly M + 1 queries were sent and M waits
\* made, and the call returns without raising.
C2_PollLoop ==
    /\ [](pc = "poll_loop" /\ ~obs.blank /\ obs.polls <= MaxCount =>
            /\ check_response = EmptyDict => (obs.polls = 0 /\ obs.slept_poll = 0)
            /\ obs.polls >= 1 => obs.slept_poll = SleepSeconds * (obs.polls - 1)
            /\ PollGood => obs.polls = obs.pendings + 1)
    /\ [][ /\ (pc = "poll_loop" /\ obs.polls = 0) =>
                (obs'.polls = 1 /\ obs'.slept_poll = 0 /\ StatusRequests' # {})
           /\ (pc = "poll_loop" /\ check_response # EmptyDict
                 /\ AnyCase("pending", check_response.result)) =>
                (obs'.polls = Inc(obs.polls) /\ obs'.slept_poll = Sleep(obs.slept_poll))
           /\ PollGood =>
                (ended'[cur] \in {"return@213", "return@end"} /\ outcome' = "running"
                   /\ http' = http /\ logs' = logs) ]_vars

\* two queries: 'pending', then a success or an 'already verified' response
C2_Witness ==
    /\ PollGood
    /\ ~obs.blank
    /\ obs.pendings = 1
    /\ obs.polls = 2
    /\ obs.slept_poll = SleepSeconds

----------------------------------------------------------------------------
(* C3 *)

\* C3: a terminal submit response or terminal poll response that is not a
\* success and says 'already verified' in any letter case makes the call
\* return normally: nothing is raised, no log file is written, no further
\* request is sent, and in the submit phase no status query was sent.
C3_AlreadyVerified ==
    [][ /\ (SubmitTerminal /\ AlreadyVerified(verify_response)) =>
              /\ ended'[cur] = "return@181"
              /\ outcome' = "running"
              /\ logs' = logs /\ logs = <<>>
              /\ http' = http
              /\ StatusRequests = {} /\ obs.polls = 0
        /\ (PollTerminal /\ AlreadyVerified(check_response)) =>
              /\ ended'[cur] = "return@213"
              /\ outcome' = "running"
              /\ logs' = logs /\ logs = <<>>
              /\ http' = http ]_vars

\* the spell was already verified at submission, the action at a status query
C3_Witness ==
    /\ ended.spell = "return@181"
    /\ ended.action = "return@213"
    /\ logs = <<>>
    /\ outcome = "done"

----------------------------------------------------------------------------
(* C4 *)

\* C4: a terminal poll response that is a failure and does not say 'already
\* verified' makes the call write one log file whose content is the
\* sourceCode of its verification request, and then raise: the log is written
\* when the exception propagates.
C4_FailureLog ==
    /\ [](pc = "raise_status" \/ error = "Failed to get verification status" =>
            /\ Len(logs) = 1
            /\ VerifyRequests # {}
            /\ \A q \in VerifyRequests : logs[1] = q.sourceCode /\ q.sourceCode = code)
    /\ [][ /\ (PollTerminal /\ Failure(check_response)) =>
                (pc' = "raise_status" /\ Len(logs') = 1 /\ outcome' = "running")
           /\ pc = "raise_status" =>
                /\ outcome' = "raised"
                /\ error' = "Failed to get verification status"
                /\ ended'[cur] = "raise"
                /\ logs' = logs ]_vars

\* the action contract's status query failed after a 'pending' response
C4_Witness ==
    /\ outcome = "raised"
    /\ error = "Failed to get verification status"
    /\ cur = "action"
    /\ obs.pendings = 1
    /\ Len(logs) = 1

----------------------------------------------------------------------------
(* C5 *)

KnownChains == {"1", "11155111"}

\* `cast call` has been run
CastCallRun == \E i \in DOMAIN subprocs : subprocs[i] = "cast call"

\* C5: a request for the action contract, or the `cast call` that looks up
\* its address, happens only after the call for the spell has returned
\* normally and the spell's URL was printed; when the call for the spell
\* raises, or the chain id is no key of etherscan_subdomains, the program
\* aborts and no request for the action contract is sent.
C5_Sequential ==
    /\ ("action" \in http \/ CastCallRun \/ cur = "action") =>
          /\ ended.spell \in Returns
          /\ \E u \in shown : u.contract = "spell"
          /\ chain_id \in KnownChains
    /\ \A q \in requests : q.call = cur /\ (q.call = "action" => ended.spell \in Returns)
    /\ ended.spell = "raise" =>
          (outcome = "raised" /\ "action" \notin http /\ ~CastCallRun /\ shown = {})
    /\ (ended.spell \in Returns /\ chain_id \notin KnownChains /\ pc # "show_spell") =>
          (outcome = "raised" /\ error = "KeyError" /\ "action" \notin http
             /\ ~CastCallRun /\ shown = {})

\* a status query for the action contract has been sent
C5_Witness ==
    /\ cur = "action"
    /\ StatusRequests # {}
    /\ http = {"spell", "action"}
    /\ shown # {}

----------------------------------------------------------------------------
(* C6 *)

\* one of the startup checks of lines 18-48 fails for this run
InvalidStart ==
    \/ "ETHERSCAN_API_KEY" \notin environ
    \/ "ETH_RPC_URL" \notin environ
    \/ Len(argv) - 1 \notin {2, 3}
    \/ StrLen(argv[3]) # 42

\* C6: when a credential is missing, or the number of arguments is not 2 or
\* 3, or the address is not 42 characters long, the program ends by exit
\* without having run a subprocess or sent an HTTP request; with credentials
\* and argument count in order it ends by exit('malformed address').
C6_Startup ==
    InvalidStart =>
        /\ subprocs = <<>>
        /\ http = {} /\ requests = {}
        /\ pc \in {"api_key", "rpc_url", "usage", "address", "end"}
        /\ pc = "end" => outcome = "exit"
        /\ outcome \in {"running", "exit"}
        /\ ( /\ pc = "end"
             /\ {"ETHERSCAN_API_KEY", "ETH_RPC_URL"} \subseteq environ
             /\ Len(argv) - 1 \in {2, 3} ) => error = "malformed address"

\* a 43-character address with three arguments
C6_Witness ==
    /\ pc = "end"
    /\ outcome = "exit"
    /\ error = "malformed address"
    /\ Len(argv) = 4
    /\ StrLen(argv[3]) = 43

----------------------------------------------------------------------------
(* C7 *)

\* C7 as stated: without a library address the requests carry an empty
\* library address and an empty library name.
C7_EmptyNameAndAddress ==
    lib_error # "" =>
        \A q \in VerifyRequests : q.libraryaddress1 = "" /\ q.libraryname1 = ""

\* the first entry of the text that names DssExecLib with a 40-digit address
MatchedAt(text, i) ==
    /\ text[i].key = "DssExecLib" /\ text[i].addr \in {LibA, LibB}
    /\ \A j \in 1..(i - 1) : ~(text[j].key = "DssExecLib" /\ text[j].addr \in {LibA, LibB})

\* C7: when foundry.toml is missing, cannot be read or has no DssExecLib
\* address, the program goes on with a warning and every verification
\* request carries an empty library address, with the library name still
\* 'DssExecLib'; when the pattern is there, every verification request
\* carries the first matched address.
C7_LibraryFallback ==
    /\ [](/\ lib_error # "" => (warned /\ library_address = "")
          /\ \A q \in VerifyRequests :
                q.libraryaddress1 = library_address /\ q.libraryname1 = "DssExecLib")
    /\ [][ /\ pc \in {"library", "search"} =>
                (outcome' = "running" /\ pc' \in {"search", "artifact"})
           /\ pc' = "search" => (lib_error' = "" /\ ~warned')
           /\ (pc = "library" /\ pc' = "artifact") =>
                lib_error' \in {"No foundry.toml found", "Permission denied"}
           /\ pc = "search" =>
                IF \E i \in DOMAIN config : MatchedAt(config, i)
                THEN /\ lib_error' = "" /\ ~warned'
                     /\ \E i \in DOMAIN config :
                            MatchedAt(config, i) /\ library_address' = config[i].addr
                ELSE lib_error' = "No DssExecLib configured in foundry.toml"
           /\ pc \notin {"library", "search"} =>
                UNCHANGED <<library_address, lib_error, warned>> ]_vars

\* a verification request sent after the warning
C7_Witness ==
    /\ lib_error = "No DssExecLib configured in foundry.toml"
    /\ warned
    /\ \E q \in VerifyRequests : q.libraryaddress1 = "" /\ q.call = "action"

----------------------------------------------------------------------------
(* C8 *)

\* C8: a response body that is not JSON, to a submit, a resubmit or a status
\* query, ends the program: the body is written to stderr, the invalid-JSON
\* error leaves verify_contract, nothing is sent afterwards and no log file is
\* written.
C8_InvalidJson ==
    (last_response # <<>> /\ last_response.fmt # "json") =>
        /\ outcome = "raised"
        /\ error = InvalidJsonError
        /\ pc = "end"
        /\ ended[cur] = "raise"
        /\ stderr = <<last_response>>
        /\ logs = <<>>

\* the body of a status response after a 'pending' one was not JSON
C8_Witness ==
    /\ last_response # <<>>
    /\ last_response.fmt = "html"
    /\ obs.polls = 2
    /\ obs.pendings = 1
    /\ outcome = "raised"

----------------------------------------------------------------------------
(* C10 *)

\* C10: a terminal submit response that is a failure and does not say
\* 'already verified' makes the call raise 'Failed to verify' with no status
\* query sent and no log file written; a log file is written only for a
\* terminal failure of a status query.
C10_SubmitFailure ==
    /\ [](/\ error = "Failed to verify" =>
                (outcome = "raised" /\ logs = <<>> /\ StatusRequests = {}
                   /\ obs.polls = 0 /\ Failure(verify_response))
          /\ logs # <<>> =>
                (obs.polls >= 1 /\ Failure(check_response)
                   /\ ~AnyCase("pending", check_response.result)))
    /\ [][ (SubmitTerminal /\ Failure(verify_response)) =>
              /\ outcome' = "raised"
              /\ error' = "Failed to verify"
              /\ ended'[cur] = "raise"
              /\ logs' = logs
              /\ http' = http /\ requests' = requests ]_vars

\* the second submission, after one 'locate' response, failed
C10_Witness ==
    /\ outcome = "raised"
    /\ error = "Failed to verify"
    /\ obs.locates = 1
    /\ obs.posts = 2

----------------------------------------------------------------------------
(* C9 *)

\* call c has received a submit response without 'locate'
NonLocateSeen(c) == cur = c /\ obs.posts > obs.locates

\* call c has obtained a guid and is polling
Polling(c) == cur = c /\ pc = "poll_loop"

\* call c has received a status response without 'pending'
NonPendingSeen(c) == cur = c /\ obs.polls > obs.pendings

\* call c has returned or raised
Ended(c) == ended[c] # "no"

\* C9: as long as every submit response has 'locate', or every status
\* response 'pending', the call stays in its loop; and a call that receives
\* a submit response without 'locate' and, if it comes to poll, a status
\* response without 'pending', returns or raises in the end.
C9_Termination ==
    /\ [](/\ (cur # "" /\ obs.posts \in 1..MaxCount /\ obs.locates = obs.posts) =>
                (pc = "locate_loop" /\ outcome = "running")
          /\ (cur # "" /\ obs.polls \in 1..MaxCount /\ obs.pendings = obs.polls) =>
                (pc = "poll_loop" /\ outcome = "running"))
    /\ \A c \in {"spell", "action"} :
          (<>NonLocateSeen(c) /\ (<>Polling(c) => <>NonPendingSeen(c))) => <>Ended(c)

\* call c has received a status response that has a result without 'pending'
ResultSeen(c) == cur = c /\ PollTerminal

\* What holds of the code: the same, for a status response that is a JSON
\* object with a result.
C9_TerminationWithResult ==
    \A c \in {"spell", "action"} :
        (<>NonLocateSeen(c) /\ (<>Polling(c) => <>ResultSeen(c))) => <>Ended(c)

====
